---- MODULE Spec2Model ----
(***************************************************************************)
(* Preemptive priority scheduler with aging (scheduling/scheduler.py) on   *)
(* top of a lazy-deletion priority queue (scheduling/heap.py).             *)
(*                                                                         *)
(* The specifications share the queue operators:                           *)
(*   Spec            one call of PriorityAgingScheduler.run, one action    *)
(*                   per section of the tick loop;                         *)
(*   FairSpec        Spec with the fairness of sequential control flow;    *)
(*   AgingSpec, ContentionSpec, StaleSpec, FloorSpec                       *)
(*                   run to completion on other families of inputs;        *)
(*   HeapSpec        arbitrary sequences of BinaryHeap operations.         *)
(***************************************************************************)
EXTENDS Integers, Sequences, FiniteSets, TLC

(***************************************************************************)
(* Bounds of the model.                                                    *)
(***************************************************************************)
NumProcs == 3
MaxArrival == 2
MaxPriority == 3
MaxBurst == 2
MaxAging == 2
MaxTime == 3
AgingMaxArrival == 3
AgingMaxPriority == 4
AgingMaxBurst == 4
AgingMaxInterval == 2
ContentionMaxArrival == 2
ContentionMaxPriority == 4
ContentionMaxBurst == 2
ContentionMaxInterval == 1
StaleMaxArrival == 2
StaleMaxPriority == 3
StaleMaxBurst == 2
StaleMaxInterval == 1
FloorMaxArrival == 1
FloorMaxPriority == 2
FloorMaxBurst == 2
FloorMaxInterval == 2
MaxOps == 4
MaxKeys == 2
MaxHeapPriority == 2

(***************************************************************************)
(* Constants of the program.                                               *)
(***************************************************************************)
\* Optional[...] = None: an int field that is not set.
None == -1
\* current: Optional[Process] = None
NoProcess == "NONE"
\* timeline.append("IDLE")
IDLE == "IDLE"
\* _REMOVED = object(): the tombstone marker
REMOVED == "REMOVED"
\* raise KeyError(...): what an operation yields when it raises
KeyError == "KeyError"

PidNames == <<"A", "B", "C", "D">>
Pids == {PidNames[i] : i \in 1..NumProcs}
PidRank(p) == CHOOSE i \in 1..Len(PidNames) : PidNames[i] = p

Max2(a, b) == IF a >= b THEN a ELSE b

Range(f) == {f[x] : x \in DOMAIN f}

\* dict without key k
DictDel(d, k) == [x \in DOMAIN d \ {k} |-> d[x]]

\* dict with d[k] = v
DictPut(d, k, v) == [x \in DOMAIN d \cup {k} |-> IF x = k THEN v ELSE d[x]]

EmptyDict == [x \in {} |-> 0]

(***************************************************************************)
(* BinaryHeap.  _heap is the multiset of physical entries                  *)
(* [priority, count, key, item]; heapq orders them as Python orders lists: *)
(* by priority tuple, then by count.  _entry_finder maps a key to its      *)
(* entry, named here by the entry's count (unique per entry).              *)
(***************************************************************************)
TupleLess(a, b) ==
    \/ a[1] < b[1]
    \/ a[1] = b[1] /\ a[2] < b[2]
    \/ a[1] = b[1] /\ a[2] = b[2] /\ a[3] < b[3]

\* Mutant: equal priorities pop newest first.
EntryLessNewestFirst(e, f) ==
    \/ TupleLess(e.priority, f.priority)
    \/ e.priority = f.priority /\ e.count > f.count

EntryLess(e, f) ==
    \/ TupleLess(e.priority, f.priority)
    \/ e.priority = f.priority /\ e.count < f.count

\* heap[0]: the entry heapq keeps at the root
HeapTop(heap) == CHOOSE e \in heap : \A f \in heap \ {e} : EntryLess(e, f)

NewHeap == [heap |-> {}, entry_finder |-> EmptyDict, counter |-> 0]

heap_len(h) == Cardinality(DOMAIN h.entry_finder)

\* Mutant: a queue holding one entry counts as empty.
is_emptyOffByOne(h) == heap_len(h) <= 1

is_empty(h) == heap_len(h) = 0

\* Mutant: removing an absent key is silently accepted.
removeQuiet(h, key) ==
    IF key \notin DOMAIN h.entry_finder
    THEN [h |-> h, raised |-> FALSE]
    ELSE [h |-> [h EXCEPT
                  !.entry_finder = DictDel(@, key),
                  !.heap = {IF e.count = h.entry_finder[key]
                            THEN [e EXCEPT !.item = REMOVED] ELSE e : e \in @}],
          raised |-> FALSE]

\* remove: pop the key's entry from the index and mark it removed in place
remove(h, key) ==
    IF key \notin DOMAIN h.entry_finder
    THEN [h |-> h, raised |-> TRUE]
    ELSE [h |-> [h EXCEPT
                  !.entry_finder = DictDel(@, key),
                  !.heap = {IF e.count = h.entry_finder[key]
                            THEN [e EXCEPT !.item = REMOVED] ELSE e : e \in @}],
          raised |-> FALSE]

\* Mutant: the key's previous entry is not retired.
insertNoRemove(h, key, item, priority) ==
    LET entry == [priority |-> priority, count |-> h.counter,
                  key |-> key, item |-> item]
    IN  [heap |-> h.heap \cup {entry},
         entry_finder |-> DictPut(h.entry_finder, key, entry.count),
         counter |-> h.counter + 1]

insert(h, key, item, priority) ==
    LET h1 == IF key \in DOMAIN h.entry_finder THEN remove(h, key).h ELSE h
        entry == [priority |-> priority, count |-> h1.counter,
                  key |-> key, item |-> item]
    IN  [heap |-> h1.heap \cup {entry},
         entry_finder |-> DictPut(h1.entry_finder, key, entry.count),
         counter |-> h1.counter + 1]

\* Mutant: the extracted key stays in the index.
RECURSIVE extract_min_indexed(_)
extract_min_indexed(h) ==
    IF h.heap = {}
    THEN [h |-> h, item |-> KeyError, raised |-> TRUE]
    ELSE LET e == HeapTop(h.heap)
             h1 == [h EXCEPT !.heap = @ \ {e}]
         IN  IF e.item # REMOVED
             THEN [h |-> h1, item |-> e.item, raised |-> FALSE]
             ELSE extract_min_indexed(h1)

RECURSIVE extract_min(_)
extract_min(h) ==
    IF h.heap = {}
    THEN [h |-> h, item |-> KeyError, raised |-> TRUE]
    ELSE LET e == HeapTop(h.heap)
             h1 == [h EXCEPT !.heap = @ \ {e}]
         IN  IF e.item # REMOVED
             THEN IF e.key \in DOMAIN h1.entry_finder
                  THEN [h |-> [h1 EXCEPT !.entry_finder = DictDel(@, e.key)],
                        item |-> e.item, raised |-> FALSE]
                  ELSE [h |-> h1, item |-> KeyError, raised |-> TRUE]
             ELSE extract_min(h1)

NoPriority == <<None, None, None>>

\* Mutant: the root's priority is reported even when the root is a tombstone.
peekNoSkip(h) ==
    IF h.heap = {}
    THEN [h |-> h, priority |-> NoPriority, raised |-> TRUE]
    ELSE [h |-> h, priority |-> HeapTop(h.heap).priority, raised |-> FALSE]

RECURSIVE peek_min_priority(_)
peek_min_priority(h) ==
    IF h.heap = {}
    THEN [h |-> h, priority |-> NoPriority, raised |-> TRUE]
    ELSE LET e == HeapTop(h.heap)
         IN  IF e.item = REMOVED
             THEN peek_min_priority([h EXCEPT !.heap = @ \ {e}])
             ELSE [h |-> h, priority |-> e.priority, raised |-> FALSE]

(***************************************************************************)
(* State.  P holds the Process records, mutated in place by run; the      *)
(* lists processes and procs hold references (pids) to them.               *)
(***************************************************************************)
VARIABLES
    processes,        \* run's argument: the records in the caller's order
    aging_interval,   \* self.aging_interval
    max_time,         \* run's argument, None when absent
    P,                \* pid -> Process record
    procs, n_total, ready, clock, idx, current, timeline, completed,
    first_seen, executed_ticks,
    cand, cand_eff, cur_eff, top_eff,
    pc,               \* the section of run about to execute
    result,           \* the ScheduleResult returned
    bh,               \* HeapSpec: a BinaryHeap under arbitrary operations
    shadow,           \* HeapSpec: key -> [priority, seq, item] of its last insert
    last_op,          \* HeapSpec: the operation called last
    last_ret,         \* HeapSpec: what it returned
    last_raised,      \* HeapSpec: whether it raised KeyError
    nops              \* HeapSpec: the number of operations called

sched_vars == <<processes, aging_interval, max_time, P, procs, n_total, ready,
                clock, idx, current, timeline, completed, first_seen,
                executed_ticks, cand, cand_eff, cur_eff, top_eff, pc, result>>
heap_vars == <<bh, shadow, last_op, last_ret, last_raised, nops>>
vars == <<sched_vars, heap_vars>>

(***************************************************************************)
(* Process: the caller's record.  remaining starts at burst; the fields    *)
(* the scheduler manages start unset.                                      *)
(***************************************************************************)
NewProcess(pid, arrival, base_priority, burst) ==
    [pid |-> pid, arrival |-> arrival, base_priority |-> base_priority,
     burst |-> burst, remaining |-> burst, last_enqueued |-> 0,
     start_time |-> None, completion_time |-> None]

\* ScheduleResult(timeline, completion_times, waiting_times, average)
\* The average is the exact quotient num / den.
ScheduleResult(tl, ct, wt, avg) ==
    [timeline |-> tl, completion_times |-> ct, waiting_times |-> wt,
     average_waiting_time |-> avg]

NoResult == ScheduleResult(<<>>, EmptyDict, EmptyDict, [num |-> None, den |-> 1])

\* Mutant: the pid is left out of the sort key.
SortKeyNoPid(p) == <<p.arrival, p.base_priority, 0>>

\* key=lambda p: (p.arrival, p.base_priority, p.pid)
SortKey(p) == <<p.arrival, p.base_priority, PidRank(p.pid)>>

\* sorted() is stable: an element goes after every element whose key is
\* not greater than its own.
RECURSIVE InsertByKey(_, _, _)
InsertByKey(Q, out, x) ==
    IF out = <<>> THEN <<x>>
    ELSE IF TupleLess(SortKey(Q[x]), SortKey(Q[Head(out)]))
         THEN <<x>> \o out
         ELSE <<Head(out)>> \o InsertByKey(Q, Tail(out), x)

RECURSIVE sorted(_, _)
sorted(Q, seq) ==
    IF seq = <<>> THEN <<>>
    ELSE InsertByKey(Q, sorted(Q, SubSeq(seq, 1, Len(seq) - 1)), seq[Len(seq)])

eff_priority(p, now, interval) ==
    LET waited == Max2(0, now - p.last_enqueued)
        boost == waited \div interval
    IN  Max2(1, p.base_priority - boost)

\* The state of run as one record, and back.
St ==
    [processes |-> processes, aging_interval |-> aging_interval,
     max_time |-> max_time, P |-> P, procs |-> procs, n_total |-> n_total,
     ready |-> ready, clock |-> clock, idx |-> idx, current |-> current,
     timeline |-> timeline, completed |-> completed,
     first_seen |-> first_seen, executed_ticks |-> executed_ticks,
     cand |-> cand, cand_eff |-> cand_eff, cur_eff |-> cur_eff,
     top_eff |-> top_eff, pc |-> pc, result |-> result]

Becomes(s) ==
    /\ processes' = s.processes
    /\ aging_interval' = s.aging_interval
    /\ max_time' = s.max_time
    /\ P' = s.P
    /\ procs' = s.procs
    /\ n_total' = s.n_total
    /\ ready' = s.ready
    /\ clock' = s.clock
    /\ idx' = s.idx
    /\ current' = s.current
    /\ timeline' = s.timeline
    /\ completed' = s.completed
    /\ first_seen' = s.first_seen
    /\ executed_ticks' = s.executed_ticks
    /\ cand' = s.cand
    /\ cand_eff' = s.cand_eff
    /\ cur_eff' = s.cur_eff
    /\ top_eff' = s.top_eff
    /\ pc' = s.pc
    /\ result' = s.result

\* The state in which run(processes, max_time) is called.
CallState(Q, order, interval, bound) ==
    [processes |-> order, aging_interval |-> interval, max_time |-> bound,
     P |-> Q, procs |-> <<>>, n_total |-> 0, ready |-> NewHeap, clock |-> 0,
     idx |-> 0, current |-> NoProcess, timeline |-> <<>>, completed |-> 0,
     first_seen |-> EmptyDict, executed_ticks |-> EmptyDict,
     cand |-> NoProcess, cand_eff |-> None, cur_eff |-> None,
     top_eff |-> None, pc |-> "start", result |-> NoResult]

\* An exception (KeyError) leaves run.
Raise(s) == [s EXCEPT !.pc = "raised"]

(***************************************************************************)
(* run, section by section.                                                *)
(***************************************************************************)
\* lines 34-50: the empty input, the sort, the locals
RunEntry(s) ==
    IF s.processes = <<>>
    THEN [s EXCEPT !.pc = "done",
                   !.result = ScheduleResult(<<>>, EmptyDict, EmptyDict,
                                             [num |-> 0, den |-> 1])]
    ELSE LET ps == sorted(s.P, s.processes)
         IN  [s EXCEPT
                !.procs = ps,
                !.n_total = Len(ps),
                !.ready = NewHeap,
                !.clock = 0,
                !.idx = 0,
                !.current = NoProcess,
                !.timeline = <<>>,
                !.completed = 0,
                !.first_seen = [p \in Range(ps) |-> s.P[p].arrival],
                !.executed_ticks = [p \in Range(ps) |-> 0],
                !.pc = "loop"]

\* Mutant: the bound is passed by one tick before the loop stops.
TimeUpLate(bound, now) == bound # None /\ now > bound

\* line 59: max_time is set and the clock has reached it
TimeUp(bound, now) == bound # None /\ now >= bound

\* lines 57-60: while completed < n_total, and the max_time break
LoopGuard(s) ==
    IF s.completed < s.n_total /\ ~TimeUp(s.max_time, s.clock)
    THEN [s EXCEPT !.pc = "admit"]
    ELSE [s EXCEPT !.pc = "stats"]

\* Mutant: an if in place of the while, one arrival per tick is enqueued.
AdmitOne(s) ==
    IF s.idx < s.n_total /\ s.P[s.procs[s.idx + 1]].arrival = s.clock
    THEN LET pid == s.procs[s.idx + 1]
             p == [s.P[pid] EXCEPT !.last_enqueued = s.clock]
         IN  [s EXCEPT
                 !.P[pid] = p,
                 !.ready = insert(@, pid, pid, <<p.base_priority, p.arrival, 0>>),
                 !.idx = @ + 1]
    ELSE s

\* lines 63-68: enqueue the arrivals at this clock
RECURSIVE AdmitLoop(_)
AdmitLoop(s) ==
    IF s.idx < s.n_total /\ s.P[s.procs[s.idx + 1]].arrival = s.clock
    THEN LET pid == s.procs[s.idx + 1]
             p == [s.P[pid] EXCEPT !.last_enqueued = s.clock]
         IN  AdmitLoop([s EXCEPT
                 !.P[pid] = p,
                 !.ready = insert(@, pid, pid, <<p.base_priority, p.arrival, 0>>),
                 !.idx = @ + 1])
    ELSE s

Admit(s) == [AdmitLoop(s) EXCEPT !.pc = "dispatch"]

\* Mutant: every dispatch overwrites start_time.
StartedAgain(p, now) == [p EXCEPT !.start_time = now]

\* lines 73-74, 95-96: p.start_time = clock, if it is None
Started(p, now) ==
    IF p.start_time = None THEN [p EXCEPT !.start_time = now] ELSE p

\* lines 71-75: pick a process when none runs
Dispatch(s) ==
    IF s.current = NoProcess /\ ~is_empty(s.ready)
    THEN LET x == extract_min(s.ready)
         IN  IF x.raised THEN Raise(s)
             ELSE [s EXCEPT !.ready = x.h,
                            !.P[x.item] = Started(@, s.clock),
                            !.current = x.item,
                            !.pc = "preempt"]
    ELSE [s EXCEPT !.pc = "preempt"]

\* Mutant: preemption needs an advantage of two levels.
ShouldPreemptByTwo(top, cur) == top + 1 < cur

\* preempt if someone is strictly higher priority
ShouldPreempt(top, cur) == top < cur

\* Mutant: the preempted process keeps its aging clock.
RequeuedUnstamped(p, now) == p

\* line 91: current.last_enqueued = clock
Requeued(p, now) == [p EXCEPT !.last_enqueued = now]

\* lines 78-96: refresh the head candidate, compare, preempt
PreemptCheck(s) ==
    IF s.current # NoProcess /\ ~is_empty(s.ready)
    THEN LET x == extract_min(s.ready)
         IN  IF x.raised THEN Raise(s)
             ELSE
             LET c == x.item
                 ceff == eff_priority(s.P[c], s.clock, s.aging_interval)
                 h1 == insert(x.h, c, c, <<ceff, s.P[c].arrival, 0>>)
                 cur == s.current
                 cureff == eff_priority(s.P[cur], s.clock, s.aging_interval)
                 pk == peek_min_priority(h1)
                 s1 == [s EXCEPT !.cand = c, !.cand_eff = ceff,
                                 !.cur_eff = cureff, !.ready = pk.h]
             IN  IF pk.raised THEN Raise(s1)
                 ELSE
                 LET s2 == [s1 EXCEPT !.top_eff = pk.priority[1]]
                 IN  IF ShouldPreempt(pk.priority[1], cureff)
                     THEN LET h2 == insert(pk.h, cur, cur,
                                           <<cureff, s.P[cur].arrival, 0>>)
                              y == extract_min(h2)
                              s3 == [s2 EXCEPT !.P[cur] = Requeued(@, s.clock),
                                               !.ready = y.h]
                          IN  IF y.raised THEN Raise(s3)
                              ELSE [s3 EXCEPT !.current = y.item,
                                              !.P[y.item] = Started(@, s.clock),
                                              !.pc = "exec"]
                     ELSE [s2 EXCEPT !.pc = "exec"]
    ELSE [s EXCEPT !.pc = "exec"]

\* Mutant: an idle tick advances the clock and records nothing.
IdleTickUnmarked(s) == [s EXCEPT !.clock = @ + 1, !.pc = "loop"]

\* lines 99-102: nothing to run, record the idle marker
IdleTick(s) ==
    [s EXCEPT !.timeline = Append(@, IDLE), !.clock = @ + 1, !.pc = "loop"]

\* Mutant: a process completes with one tick of its burst left.
FinishedEarly(remaining) == remaining <= 1

\* line 108: if current.remaining <= 0
Finished(remaining) == remaining <= 0

\* Mutant: the completed process stays the running one.
MarkCompletedStillRunning(s, cur) ==
    [s EXCEPT !.P[cur].completion_time = s.clock + 1, !.completed = @ + 1]

\* Mutant: the completion is recorded but not counted.
MarkCompletedUncounted(s, cur) ==
    [s EXCEPT !.P[cur].completion_time = s.clock + 1,
              !.current = NoProcess]

\* lines 109-111: record the completion and free the processor
MarkCompleted(s, cur) ==
    [s EXCEPT !.P[cur].completion_time = s.clock + 1,
              !.completed = @ + 1,
              !.current = NoProcess]

\* lines 104-113: run the current process for one tick
RunTick(s) ==
    LET cur == s.current
        s1 == [s EXCEPT !.timeline = Append(@, cur),
                        !.P[cur].remaining = @ - 1,
                        !.executed_ticks[cur] = @ + 1]
        s2 == IF Finished(s1.P[cur].remaining) THEN MarkCompleted(s1, cur)
              ELSE s1
    IN  [s2 EXCEPT !.clock = @ + 1, !.pc = "loop"]

\* lines 98-113: execute one tick
Execute(s) == IF s.current = NoProcess THEN IdleTick(s) ELSE RunTick(s)

\* Mutant: the burst is not subtracted.
WaitingTimeIsTurnaround(p) == p.completion_time - p.arrival

\* lines 121-122: turnaround = completion - arrival; waiting = turnaround - burst
WaitingTime(p) == (p.completion_time - p.arrival) - p.burst

RECURSIVE SumValues(_)
SumValues(d) ==
    IF DOMAIN d = {} THEN 0
    ELSE LET k == CHOOSE x \in DOMAIN d : TRUE
         IN  d[k] + SumValues(DictDel(d, k))

\* lines 115-131: the statistics of the processes that completed
PostLoop(s) ==
    LET done == {p \in Range(s.procs) : s.P[p].completion_time # None}
        completion_times == [p \in done |-> s.P[p].completion_time]
        waiting_times ==
            [p \in done |-> WaitingTime(s.P[p])]
        avg_wait == IF done # {}
                    THEN [num |-> SumValues(waiting_times),
                          den |-> Cardinality(done)]
                    ELSE [num |-> 0, den |-> 1]
    IN  [s EXCEPT !.result = ScheduleResult(s.timeline, completion_times,
                                            waiting_times, avg_wait),
                  !.pc = "done"]

\* The section of run at s.pc.
Step(s) ==
    CASE s.pc = "start" -> RunEntry(s)
      [] s.pc = "loop" -> LoopGuard(s)
      [] s.pc = "admit" -> Admit(s)
      [] s.pc = "dispatch" -> Dispatch(s)
      [] s.pc = "preempt" -> PreemptCheck(s)
      [] s.pc = "exec" -> Execute(s)
      [] s.pc = "stats" -> PostLoop(s)
      [] OTHER -> s

\* run from s to its return (or to the exception that leaves it)
RECURSIVE RunFrom(_)
RunFrom(s) == IF s.pc \in {"done", "raised"} THEN s ELSE RunFrom(Step(s))

(***************************************************************************)
(* Spec: one call of run on up to NumProcs processes with unique pids.     *)
(***************************************************************************)
Intervals == 1..MaxAging
TimeBounds == {None} \cup 0..MaxTime

\* The orders in which a caller may supply the records of the pids S.
Orders(S) ==
    {o \in [1..Cardinality(S) -> S] :
        \A i, j \in 1..Cardinality(S) : o[i] = o[j] => i = j}

\* The pids S in the order of PidNames.
RECURSIVE InPidOrder(_, _)
InPidOrder(S, i) ==
    IF i > Len(PidNames) THEN <<>>
    ELSE (IF PidNames[i] \in S THEN <<PidNames[i]>> ELSE <<>>)
         \o InPidOrder(S, i + 1)

\* The variables of run hold the record s.
Holds(s) ==
    /\ processes = s.processes
    /\ aging_interval = s.aging_interval
    /\ max_time = s.max_time
    /\ P = s.P
    /\ procs = s.procs
    /\ n_total = s.n_total
    /\ ready = s.ready
    /\ clock = s.clock
    /\ idx = s.idx
    /\ current = s.current
    /\ timeline = s.timeline
    /\ completed = s.completed
    /\ first_seen = s.first_seen
    /\ executed_ticks = s.executed_ticks
    /\ cand = s.cand
    /\ cand_eff = s.cand_eff
    /\ cur_eff = s.cur_eff
    /\ top_eff = s.top_eff
    /\ pc = s.pc
    /\ result = s.result

\* The records a caller may build for the pids S.
Records(S, arrivals, priorities, bursts) ==
    {[p \in S |-> NewProcess(p, f[p][1], f[p][2], f[p][3])] :
        f \in [S -> arrivals \X priorities \X bursts]}

HeapIdle ==
    /\ bh = NewHeap
    /\ shadow = EmptyDict
    /\ last_op = "none"
    /\ last_ret = "none"
    /\ last_raised = FALSE
    /\ nops = 0

\* run is called on 0..NumProcs fresh records with unique pids.
Init ==
    /\ HeapIdle
    /\ \E n \in 0..NumProcs :
         \E Q \in Records({PidNames[i] : i \in 1..n}, 0..MaxArrival,
                          1..MaxPriority, 1..MaxBurst) :
           \E interval \in Intervals, bound \in TimeBounds :
             Holds(CallState(Q, InPidOrder(DOMAIN Q, 1), interval, bound))

DoRunEntry == pc = "start" /\ Becomes(RunEntry(St)) /\ UNCHANGED heap_vars
DoLoopGuard == pc = "loop" /\ Becomes(LoopGuard(St)) /\ UNCHANGED heap_vars
DoAdmit == pc = "admit" /\ Becomes(Admit(St)) /\ UNCHANGED heap_vars
DoDispatch == pc = "dispatch" /\ Becomes(Dispatch(St)) /\ UNCHANGED heap_vars
DoPreemptCheck == pc = "preempt" /\ Becomes(PreemptCheck(St)) /\ UNCHANGED heap_vars
DoExecute == pc = "exec" /\ Becomes(Execute(St)) /\ UNCHANGED heap_vars
DoPostLoop == pc = "stats" /\ Becomes(PostLoop(St)) /\ UNCHANGED heap_vars

Next ==
    \/ DoRunEntry
    \/ DoLoopGuard
    \/ DoAdmit
    \/ DoDispatch
    \/ DoPreemptCheck
    \/ DoExecute
    \/ DoPostLoop

Spec == Init /\ [][Next]_vars

\* run is sequential code: until it returns or raises, the section at pc
\* executes and control moves on.  Every step of Next from such a pc is a
\* step of Advance, and one exists, so this is weak fairness of Next.
Advance ==
    /\ pc \notin {"done", "raised"}
    /\ pc' \in {"loop", "admit", "dispatch", "preempt", "exec", "stats",
               "done", "raised"}
    /\ pc' # pc

FairSpec == Init /\ [][Next]_vars /\ WF_pc(Advance)

(***************************************************************************)
(* AgingSpec: run to completion on three contending processes that arrive  *)
(* in two waves, with priorities and bursts wide enough for a waiting      *)
(* process to age past the running one.                                    *)
(***************************************************************************)
AgingInit ==
    /\ HeapIdle
    /\ \E Q \in Records({PidNames[i] : i \in 1..3}, {0, AgingMaxArrival},
                        1..AgingMaxPriority, 1..AgingMaxBurst) :
         \E interval \in 1..AgingMaxInterval :
           Holds(CallState(Q, InPidOrder(DOMAIN Q, 1), interval, None))

AgingSpec == AgingInit /\ [][Next]_vars

(***************************************************************************)
(* ContentionSpec: run to completion on four short processes in two        *)
(* waves, so that entries wait in the queue behind a head that is          *)
(* refreshed while they are not.                                           *)
(***************************************************************************)
ContentionInit ==
    /\ HeapIdle
    /\ \E Q \in Records({PidNames[i] : i \in 1..4}, {0, ContentionMaxArrival},
                        1..ContentionMaxPriority, 1..ContentionMaxBurst) :
         \E interval \in 1..ContentionMaxInterval :
           Holds(CallState(Q, InPidOrder(DOMAIN Q, 1), interval, None))

ContentionSpec == ContentionInit /\ [][Next]_vars

(***************************************************************************)
(* StaleSpec: run to completion on four short processes that arrive at     *)
(* consecutive ticks, so that a process ages in the queue behind entries   *)
(* that are dispatched, preempted and queued again ahead of it.            *)
(***************************************************************************)
StaleInit ==
    /\ HeapIdle
    /\ \E Q \in Records({PidNames[i] : i \in 1..4}, 0..StaleMaxArrival,
                        1..StaleMaxPriority, 1..StaleMaxBurst) :
         \E interval \in 1..StaleMaxInterval :
           Holds(CallState(Q, InPidOrder(DOMAIN Q, 1), interval, None))

StaleSpec == StaleInit /\ [][Next]_vars

(***************************************************************************)
(* FloorSpec: run to completion on three processes whose base priorities   *)
(* (any integer, lower = higher priority) reach the floor 1 of the         *)
(* effective priority and go below it.                                     *)
(***************************************************************************)
FloorInit ==
    /\ HeapIdle
    /\ \E Q \in Records({PidNames[i] : i \in 1..3}, 0..FloorMaxArrival,
                        0..FloorMaxPriority, 1..FloorMaxBurst) :
         \E interval \in 1..FloorMaxInterval :
           Holds(CallState(Q, InPidOrder(DOMAIN Q, 1), interval, None))

FloorSpec == FloorInit /\ [][Next]_vars

(***************************************************************************)
(* HeapSpec: up to MaxOps operations on one BinaryHeap, in any order.      *)
(* shadow is the queue the operations are meant to implement: the live     *)
(* keys, each with the priority, payload and sequence number of its most   *)
(* recent insert.                                                          *)
(***************************************************************************)
HeapKeys == {PidNames[i] : i \in 1..MaxKeys}
HeapPriorities == {<<e, a, 0>> : e \in 1..MaxHeapPriority, a \in 0..1}

\* The key the queue is meant to yield next.
ShadowLess(a, b) ==
    \/ TupleLess(a.priority, b.priority)
    \/ a.priority = b.priority /\ a.seq < b.seq

ShadowMin(sh) ==
    CHOOSE k \in DOMAIN sh :
        \A j \in DOMAIN sh \ {k} : ShadowLess(sh[k], sh[j])

SchedIdle == Holds(CallState(EmptyDict, <<>>, 1, None))

HeapInit ==
    /\ SchedIdle
    /\ HeapIdle

HeapInsert ==
    /\ nops < MaxOps
    /\ \E key \in HeapKeys, priority \in HeapPriorities :
         \* the payload is the keyed object itself, as in the scheduler
         /\ bh' = insert(bh, key, key, priority)
         /\ shadow' = DictPut(shadow, key,
                              [priority |-> priority, seq |-> nops,
                               item |-> key])
    /\ last_op' = "insert"
    /\ last_ret' = "none"
    /\ last_raised' = FALSE
    /\ nops' = nops + 1
    /\ UNCHANGED sched_vars

HeapRemove ==
    /\ nops < MaxOps
    /\ \E key \in HeapKeys :
         LET r == remove(bh, key)
         IN  /\ bh' = r.h
             /\ last_raised' = r.raised
             /\ shadow' = DictDel(shadow, key)
    /\ last_op' = "remove"
    /\ last_ret' = "none"
    /\ nops' = nops + 1
    /\ UNCHANGED sched_vars

HeapExtractMin ==
    /\ nops < MaxOps
    /\ LET x == extract_min(bh)
       IN  /\ bh' = x.h
           /\ last_ret' = x.item
           /\ last_raised' = x.raised
    /\ shadow' = IF shadow = EmptyDict THEN shadow
                 ELSE DictDel(shadow, ShadowMin(shadow))
    /\ last_op' = "extract_min"
    /\ nops' = nops + 1
    /\ UNCHANGED sched_vars

HeapPeek ==
    /\ nops < MaxOps
    /\ LET x == peek_min_priority(bh)
       IN  /\ bh' = x.h
           /\ last_ret' = x.priority
           /\ last_raised' = x.raised
    /\ last_op' = "peek_min_priority"
    /\ nops' = nops + 1
    /\ UNCHANGED <<shadow, sched_vars>>

HeapNext ==
    \/ HeapInsert
    \/ HeapRemove
    \/ HeapExtractMin
    \/ HeapPeek

HeapSpec == HeapInit /\ [][HeapNext]_vars

(***************************************************************************)
(* Helpers of the properties.                                              *)
(***************************************************************************)
\* The ticks (from 0) at which pid p occupies the timeline tl.
TicksOf(tl, p) == {i - 1 : i \in {j \in DOMAIN tl : tl[j] = p}}

MinOf(S) == CHOOSE x \in S : \A y \in S : x <= y

\* The keys with a live entry in the queue h.
LiveKeys(h) == DOMAIN h.entry_finder

\* The caller's records as they were when run was called.
FreshRecords == [p \in DOMAIN P |->
                   NewProcess(p, P[p].arrival, P[p].base_priority, P[p].burst)]

\* The whole of run on the same records supplied in the given order.
RunOn(order, bound) ==
    RunFrom(CallState(FreshRecords, order, aging_interval, bound))

Running == pc \in {"loop", "admit", "dispatch", "preempt", "exec", "stats"}

(***************************************************************************)
(* C1: aging causes preemption.                                            *)
(***************************************************************************)
\* The live entry extract_min would return: the head candidate.
HeadEntry(h) == HeapTop({e \in h.heap : e.item # REMOVED})

\* The original statement: a waiting process of numerically higher base
\* priority that has waited aging_interval * (base_priority - 1) ticks has
\* preempted the process that was running, so no process goes on running
\* at a tick at which such a process is waiting.
C1_AgedWaiterHasPreempted ==
    ~ /\ pc = "exec"
      /\ current # NoProcess
      /\ clock > 0
      /\ timeline[clock] = current
      /\ \E w \in LiveKeys(ready) :
            /\ P[w].base_priority > P[current].base_priority
            /\ clock - P[w].last_enqueued >=
                  aging_interval * (P[w].base_priority - 1)

\* As amended: when the head candidate's effective priority at tick t is
\* strictly lower than the running process's effective priority at t
\* (aged from its own last_enqueued), the running process is preempted at
\* t: it is queued again with last_enqueued = t, a process that was
\* waiting takes its place and occupies the timeline at t.
C1_StrictlyLowerHeadPreempts ==
    [][/\ (pc = "preempt" /\ current # NoProcess /\ LiveKeys(ready) # {}) =>
            LET w == HeadEntry(ready).key
                weff == eff_priority(P[w], clock, aging_interval)
                reff == eff_priority(P[current], clock, aging_interval)
            IN  weff < reff =>
                   /\ pc' = "exec"
                   /\ current' \in LiveKeys(ready)
                   /\ current' # current
                   /\ current \in LiveKeys(ready')
                   /\ P[current].remaining > 0
                   /\ P'[current].last_enqueued = clock
                   /\ top_eff' <= weff
       /\ (pc = "exec" /\ current # NoProcess) =>
            timeline' = Append(timeline, current)]_vars

\* A waiting process of numerically higher base priority has just
\* preempted a process that had already executed.
C1_Witness ==
    /\ pc = "exec"
    /\ current # NoProcess
    /\ \E p \in LiveKeys(ready) :
         /\ P[p].last_enqueued = clock
         /\ P[p].remaining < P[p].burst
         /\ P[p].base_priority < P[current].base_priority

(***************************************************************************)
(* C2: the result of run depends only on the set of records, the aging     *)
(* interval and max_time: run on the same records in any order returns     *)
(* the same ScheduleResult.                                                *)
(***************************************************************************)
C2_Deterministic ==
    pc = "done" =>
        \A order \in Orders(DOMAIN P) : RunOn(order, max_time).result = result

\* A run to completion on three records that the sort reordered, two of
\* them equal in arrival and base priority.
C2_Witness ==
    /\ pc = "done"
    /\ Len(processes) = 3
    /\ procs # processes
    /\ DOMAIN result.completion_times = DOMAIN P
    /\ \E p, q \in DOMAIN P :
         /\ p # q
         /\ P[p].arrival = P[q].arrival
         /\ P[p].base_priority = P[q].base_priority
         /\ P[p].burst # P[q].burst

(***************************************************************************)
(* C3: for a non-empty input, whenever run is between two sections of the  *)
(* loop and when it returns, the timeline has one entry per elapsed tick   *)
(* and every entry is the idle marker or the pid of an input process.      *)
(***************************************************************************)
C3_TimelineMatchesClock ==
    /\ (Running \/ (pc = "done" /\ processes # <<>>)) =>
          /\ Len(timeline) = clock
          /\ \A i \in DOMAIN timeline : timeline[i] \in {IDLE} \cup Range(processes)
    /\ (pc = "done" /\ processes # <<>>) => result.timeline = timeline

C3_Witness ==
    /\ pc = "done"
    /\ clock >= 3
    /\ \E i, j \in DOMAIN result.timeline :
         result.timeline[i] = IDLE /\ result.timeline[j] \in Range(processes)

(***************************************************************************)
(* C4: every process that has completed has remaining = 0, occupies the   *)
(* timeline exactly burst times, and completion_time - start_time >= burst.*)
(***************************************************************************)
C4_CompletedRanItsBurst ==
    \A p \in DOMAIN P :
        P[p].completion_time # None =>
            /\ P[p].remaining = 0
            /\ Cardinality(TicksOf(timeline, p)) = P[p].burst
            /\ P[p].start_time # None
            /\ P[p].completion_time - P[p].start_time >= P[p].burst

\* A process completed after having been preempted.
C4_Witness ==
    \E p \in DOMAIN P :
        /\ P[p].completion_time # None
        /\ P[p].burst >= 2
        /\ P[p].completion_time - P[p].start_time > P[p].burst

(***************************************************************************)
(* C5: in the result, waiting_times[pid] = (completion - arrival) - burst  *)
(* for every pid of completion_times, it is >= 0 and it is the number of   *)
(* ticks in [arrival, completion) at which the timeline holds another      *)
(* occupant; a process with no completion time has no waiting time.        *)
(***************************************************************************)
C5_WaitingTimes ==
    pc = "done" =>
        /\ DOMAIN result.completion_times =
              {p \in DOMAIN P : P[p].completion_time # None}
        /\ DOMAIN result.waiting_times = DOMAIN result.completion_times
        /\ \A p \in DOMAIN result.completion_times :
              LET ct == result.completion_times[p]
                  w == result.waiting_times[p]
              IN  /\ ct = P[p].completion_time
                  /\ w = (ct - P[p].arrival) - P[p].burst
                  /\ w >= 0
                  /\ w = Cardinality({t \in P[p].arrival .. ct - 1 :
                                        result.timeline[t + 1] # p})

\* A truncated run in which one process waited and another did not complete.
C5_Witness ==
    /\ pc = "done"
    /\ \E p \in DOMAIN result.waiting_times : result.waiting_times[p] >= 2
    /\ \E p \in DOMAIN P : p \notin DOMAIN result.waiting_times

(***************************************************************************)
(* C6: with max_time = M run never simulates more than M ticks; when M is  *)
(* below the ticks the input needs, the timeline has exactly M entries,    *)
(* some process is left with remaining > 0, the processes with             *)
(* remaining > 0 are exactly those absent from completion_times, and       *)
(* fewer completion times than processes are reported.                     *)
(***************************************************************************)
TicksNeeded == Len(RunOn(processes, None).result.timeline)

C6_MaxTimeBound ==
    /\ max_time # None => Len(timeline) <= max_time
    /\ (pc = "done" /\ max_time # None /\ max_time < TicksNeeded) =>
          /\ Len(result.timeline) = max_time
          /\ \E p \in DOMAIN P : P[p].remaining > 0
          /\ DOMAIN P \ DOMAIN result.completion_times =
                {p \in DOMAIN P : P[p].remaining > 0}
          /\ Cardinality(DOMAIN result.completion_times) < Len(processes)

\* A truncated run in which one process completed and another was cut short.
C6_Witness ==
    /\ pc = "done"
    /\ max_time # None
    /\ max_time < TicksNeeded
    /\ DOMAIN result.completion_times # {}
    /\ \E p \in DOMAIN P : P[p].remaining > 0 /\ P[p].remaining < P[p].burst

(***************************************************************************)
(* C7: remaining is never negative and never increases, and a completion   *)
(* time, once set, never changes: a completed process is not dispatched,   *)
(* queued or executed again.                                               *)
(***************************************************************************)
C7_RemainingAndCompletion ==
    /\ [](\A p \in DOMAIN P : P[p].remaining >= 0)
    /\ [][\A p \in DOMAIN P :
            /\ P'[p].remaining <= P[p].remaining
            /\ P[p].completion_time # None =>
                  /\ P'[p].completion_time = P[p].completion_time
                  /\ P'[p].remaining = P[p].remaining
                  /\ current' # p
                  /\ p \notin LiveKeys(ready')
                  /\ TicksOf(timeline', p) = TicksOf(timeline, p)]_vars

\* A process has completed and the run went on for two more ticks.
C7_Witness ==
    \E p \in DOMAIN P :
        /\ P[p].completion_time # None
        /\ clock >= P[p].completion_time + 2
        /\ \E q \in DOMAIN P : P[q].remaining > 0 /\ P[q].remaining < P[q].burst

(***************************************************************************)
(* C8: start_time is the tick of first execution and is set once: a set    *)
(* start_time is the first tick at which the pid occupies the timeline     *)
(* (once the tick of the dispatch has executed), and it is never           *)
(* reassigned.                                                             *)
(***************************************************************************)
C8_StartIsFirstExecution ==
    /\ [](\A p \in DOMAIN P :
            (P[p].start_time # None /\ pc \in {"loop", "stats", "done"}) =>
                /\ TicksOf(timeline, p) # {}
                /\ P[p].start_time = MinOf(TicksOf(timeline, p)))
    /\ [][\A p \in DOMAIN P :
            P[p].start_time # None => P'[p].start_time = P[p].start_time]_vars

(***************************************************************************)
(* C9: a successful extract_min returns the payload of the live key whose  *)
(* (priority of its most recent insert, sequence number of that insert)    *)
(* is smallest, and that key is then no longer live: removed keys are      *)
(* skipped, a key inserted again is extracted once, at the place of its    *)
(* new priority, and equal priorities come out in insertion order.         *)
(***************************************************************************)
C9_ExtractMinReturnsLiveMinimum ==
    [][(last_op' = "extract_min" /\ nops' = nops + 1 /\ ~last_raised') =>
          /\ shadow # EmptyDict
          /\ last_ret' = shadow[ShadowMin(shadow)].item
          /\ LiveKeys(bh') = DOMAIN shadow \ {ShadowMin(shadow)}]_vars

\* The one extract_min after three inserts popped two physical entries:
\* it skipped the tombstone of a key inserted twice and returned the
\* payload of the other key, and the key inserted twice is still live.
C9_Witness ==
    /\ last_op = "extract_min"
    /\ ~last_raised
    /\ bh.counter = 3
    /\ nops = bh.counter + 1
    /\ Cardinality(bh.heap) = 1
    /\ DOMAIN shadow # {}
    /\ last_ret \in HeapKeys \ DOMAIN shadow

(***************************************************************************)
(* C10: the index holds one entry per live key, that entry is in the heap  *)
(* storage and is not a tombstone, every physical entry that is not a      *)
(* tombstone is the indexed entry of its key, and the size is the number   *)
(* of live keys.                                                           *)
(***************************************************************************)
C10_IndexConsistent ==
    /\ \A key \in DOMAIN bh.entry_finder :
          /\ Cardinality({e \in bh.heap : e.count = bh.entry_finder[key]}) = 1
          /\ \A e \in bh.heap :
                e.count = bh.entry_finder[key] =>
                    e.key = key /\ e.item # REMOVED
    /\ \A e \in bh.heap :
          e.item # REMOVED =>
              e.key \in DOMAIN bh.entry_finder /\ bh.entry_finder[e.key] = e.count
    /\ DOMAIN bh.entry_finder = DOMAIN shadow
    /\ heap_len(bh) = Cardinality(DOMAIN shadow)
    /\ \A key \in DOMAIN shadow, e \in bh.heap :
          e.count = bh.entry_finder[key] =>
              e.priority = shadow[key].priority /\ e.item = shadow[key].item

\* A key has a live entry and a tombstone in storage beside another live key.
C10_Witness ==
    /\ \E e, f \in bh.heap :
          e.key = f.key /\ e.item = REMOVED /\ f.item # REMOVED
    /\ heap_len(bh) = 2
    /\ Cardinality(bh.heap) >= 3

(***************************************************************************)
(* C11: a BinaryHeap operation raises exactly when its precondition fails: *)
(* remove when its key is not live (it removes no live key), extract_min   *)
(* and peek_min_priority when no key is live, whatever tombstones the      *)
(* storage holds; and a call that raised leaves the live keys, their       *)
(* priorities and the size as they were.                                   *)
(***************************************************************************)
\* The logical contents of the queue h: live key -> priority of its entry.
LiveView(h) ==
    [k \in LiveKeys(h) |->
        (CHOOSE e \in h.heap : e.count = h.entry_finder[k]).priority]

C11_FailsExactlyOnPrecondition ==
    [][nops' = nops + 1 =>
         /\ last_op' = "insert" => ~last_raised'
         /\ last_op' = "remove" =>
               /\ last_raised' <=> LiveKeys(bh') = LiveKeys(bh)
               /\ ~last_raised' =>
                     \E key \in LiveKeys(bh) : LiveKeys(bh') = LiveKeys(bh) \ {key}
         /\ last_op' \in {"extract_min", "peek_min_priority"} =>
               (last_raised' <=> LiveKeys(bh) = {})
         /\ last_raised' =>
               /\ LiveView(bh') = LiveView(bh)
               /\ heap_len(bh') = heap_len(bh)
               /\ shadow' = shadow]_vars

\* remove has raised on a key whose tombstone is still in storage, beside
\* a live entry of another key.
C11_Witness ==
    /\ last_op = "remove"
    /\ last_raised
    /\ heap_len(bh) = 1
    /\ \E e \in bh.heap : e.item = REMOVED /\ e.key \notin LiveKeys(bh)

(***************************************************************************)
(* C12: a successful peek_min_priority returns the priority of the entry   *)
(* an extract_min called next would return; no peek changes the live keys, *)
(* their priorities, their sequence numbers or the size: all it may do to  *)
(* the queue is drop tombstones from storage.                              *)
(***************************************************************************)
C12_PeekIsExtractWithoutRemoval ==
    [][(last_op' = "peek_min_priority" /\ nops' = nops + 1) =>
         /\ ~last_raised' =>
               LET x == extract_min(bh')
                   popped == bh'.heap \ x.h.heap
               IN  /\ ~x.raised
                   /\ \E e \in popped :
                         /\ e.item = x.item
                         /\ e.item # REMOVED
                         /\ e.priority = last_ret'
                   /\ last_ret' = shadow[ShadowMin(shadow)].priority
                   /\ x.item = shadow[ShadowMin(shadow)].item
         /\ bh'.entry_finder = bh.entry_finder
         /\ LiveView(bh') = LiveView(bh)
         /\ heap_len(bh') = heap_len(bh)
         /\ bh'.counter = bh.counter
         /\ shadow' = shadow
         /\ bh'.heap \subseteq bh.heap
         /\ \A e \in bh.heap \ bh'.heap : e.item = REMOVED]_vars

\* The one peek after three inserts has dropped the tombstone of a key
\* inserted twice and reported a priority, with both keys live.
C12_Witness ==
    /\ last_op = "peek_min_priority"
    /\ ~last_raised
    /\ nops = bh.counter + 1
    /\ Cardinality(bh.heap) < bh.counter
    /\ heap_len(bh) = 2

(***************************************************************************)
(* C13: run terminates.  The clock never passes the last arrival plus the  *)
(* sum of the bursts, nor max_time; the loop goes on only while some       *)
(* process is incomplete and max_time is not reached, and leaves at the    *)
(* tick of the last completion or at max_time; run eventually returns,     *)
(* and without max_time every process has then completed.                  *)
(***************************************************************************)
MaxOf(S) == CHOOSE x \in S : \A y \in S : x >= y

\* The ticks a run can need: the last arrival and every burst after it.
Horizon ==
    IF DOMAIN P = {} THEN 0
    ELSE MaxOf({P[p].arrival : p \in DOMAIN P})
         + SumValues([p \in DOMAIN P |-> P[p].burst])

C13_Terminates ==
    /\ [](Running => /\ clock <= Horizon
                     /\ max_time # None => clock <= max_time)
    /\ [](pc = "admit" => completed < n_total /\ ~TimeUp(max_time, clock))
    /\ [](pc = "stats" =>
            \/ /\ completed = n_total
               /\ \A p \in DOMAIN P : P[p].completion_time # None
               /\ clock = MaxOf({P[p].completion_time : p \in DOMAIN P})
            \/ /\ max_time # None
               /\ completed < n_total
               /\ clock = max_time)
    /\ <>(pc = "done")
    /\ (max_time = None) =>
          <>(pc = "done" /\ DOMAIN result.completion_times = DOMAIN P)

\* A run without max_time has returned after an idle tick, with a process
\* that was kept waiting after its first dispatch.
C13_Witness ==
    /\ pc = "done"
    /\ max_time = None
    /\ Len(processes) = 3
    /\ \E i \in DOMAIN result.timeline : result.timeline[i] = IDLE
    /\ \E p \in DOMAIN P :
          P[p].completion_time - P[p].start_time > P[p].burst

(***************************************************************************)
(* C14: preemption happens only on a strict advantage: when the preemption *)
(* check of tick t displaces the running process, the process dispatched   *)
(* in its place is another process, and its effective priority as of t,    *)
(* from its base_priority and last_enqueued, is strictly lower than the    *)
(* displaced process's effective priority as of t.                         *)
(***************************************************************************)
C14_PreemptionOnlyOnStrictAdvantage ==
    [][(pc = "preempt" /\ current # NoProcess /\ current' # current) =>
          /\ current' \in DOMAIN P
          /\ eff_priority(P[current'], clock, aging_interval)
                < eff_priority(P[current], clock, aging_interval)]_vars

(***************************************************************************)
(* C15: last_enqueued is the tick at which the process last entered the    *)
(* ready state: the admission of a process sets it to the current tick,    *)
(* which is its arrival; the preemption of the running process sets it to  *)
(* the current tick; no other step changes it, not the dispatch, the       *)
(* execution or the refresh of the head candidate.                         *)
(***************************************************************************)
C15_LastEnqueuedIsLastEntry ==
    [][\A p \in DOMAIN P :
         LET admitted == /\ pc = "admit"
                         /\ p \notin LiveKeys(ready)
                         /\ p \in LiveKeys(ready')
             displaced == /\ pc = "preempt"
                          /\ current = p
                          /\ current' # p
         IN  /\ admitted => /\ P'[p].last_enqueued = clock
                            /\ P[p].arrival = clock
             /\ displaced => /\ P'[p].last_enqueued = clock
                             /\ p \in LiveKeys(ready')
             /\ ~(admitted \/ displaced) =>
                   P'[p].last_enqueued = P[p].last_enqueued]_vars

\* The head candidate just refreshed is a process that was preempted at an
\* earlier tick, after its arrival, and it still carries that tick.
C15_Witness ==
    /\ pc = "exec"
    /\ cand \in LiveKeys(ready)
    /\ cand # current
    /\ P[cand].last_enqueued > P[cand].arrival
    /\ P[cand].last_enqueued < clock
    /\ \E e \in ready.heap :
          /\ e.key = cand
          /\ e.item # REMOVED
          /\ e.count = ready.counter - 1

(***************************************************************************)
(* C16: admission.  The processes admitted so far (procs up to idx) are    *)
(* those whose arrival the clock has reached, so none is skipped; the      *)
(* admission step of tick t queues every process with arrival = t, which   *)
(* was not queued before, under the priority (base_priority, arrival, 0);  *)
(* an admitted process is never admitted again; a process not yet          *)
(* admitted is not queued, not running, not dispatched and not in the      *)
(* timeline, and no process occupies a tick before its arrival.            *)
(***************************************************************************)
\* The processes the admission loop has passed.
Admitted(ps, i) == {ps[k] : k \in 1..i}

C16_AdmittedAtArrival ==
    /\ [](pc \in {"loop", "admit", "stats"} =>
            Admitted(procs, idx) = {p \in DOMAIN P : P[p].arrival < clock})
    /\ [](pc \in {"dispatch", "preempt", "exec"} =>
            Admitted(procs, idx) = {p \in DOMAIN P : P[p].arrival <= clock})
    /\ [](Running =>
            \A p \in DOMAIN P :
               /\ p \notin Admitted(procs, idx) =>
                     /\ p \notin LiveKeys(ready)
                     /\ current # p
                     /\ P[p].start_time = None
                     /\ TicksOf(timeline, p) = {}
               /\ \A t \in TicksOf(timeline, p) : t >= P[p].arrival
               /\ P[p].start_time # None => P[p].start_time >= P[p].arrival)
    /\ [][/\ pc = "admit" =>
               \A p \in DOMAIN P :
                  P[p].arrival = clock =>
                     /\ p \notin Admitted(procs, idx)
                     /\ p \in Admitted(procs', idx')
                     /\ \E e \in ready'.heap :
                           /\ e.key = p
                           /\ e.item = p
                           /\ e.count = ready'.entry_finder[p]
                           /\ e.priority = <<P[p].base_priority, P[p].arrival, 0>>
          /\ pc # "admit" => idx' = idx
          /\ Running => Admitted(procs, idx) \subseteq Admitted(procs', idx')]_vars

\* After an idle tick two processes have been admitted together, at
\* their arrival.
C16_Witness ==
    /\ pc = "dispatch"
    /\ clock > 0
    /\ \E i \in DOMAIN timeline : timeline[i] = IDLE
    /\ \E p, q \in LiveKeys(ready) :
          /\ p # q
          /\ P[p].arrival = clock
          /\ P[q].arrival = clock
          /\ P[p].start_time = None
          /\ P[q].start_time = None

(***************************************************************************)
(* C17: no KeyError leaves run.  Every key of the ready queue's index has  *)
(* a live entry in storage, so the extract_min and peek_min_priority that  *)
(* run calls on a queue it found non-empty succeed, the peek after the     *)
(* head refresh and the extract after the re-queue included; and insert    *)
(* never finds the key it inserts already queued, so no key is removed.    *)
(***************************************************************************)
C17_NoKeyErrorLeavesRun ==
    /\ [](pc # "raised")
    /\ [](\A key \in LiveKeys(ready) :
            \E e \in ready.heap :
               e.key = key /\ e.item # REMOVED /\ e.count = ready.entry_finder[key])
    /\ [](\A e \in ready.heap : e.item # REMOVED)
    /\ [][/\ (pc = "dispatch" /\ current = NoProcess /\ ~is_empty(ready)) =>
               ~extract_min(ready).raised /\ current' \in LiveKeys(ready)
          /\ (pc = "preempt" /\ current # NoProcess /\ ~is_empty(ready)) =>
               /\ ~extract_min(ready).raised
               /\ cand' \in LiveKeys(ready)
               /\ top_eff' # None
               /\ current' \in LiveKeys(ready) \cup {current}
               /\ current \notin LiveKeys(ready)]_vars

\* The only queued process has preempted the running one: the queue was
\* emptied by the refresh, peeked after the reinsert, and emptied again by
\* the extract after the re-queue; it now holds the preempted process.
C17_Witness ==
    /\ pc = "exec"
    /\ cand = current
    /\ top_eff < cur_eff
    /\ heap_len(ready) = 1
    /\ \E p \in LiveKeys(ready) :
          /\ P[p].last_enqueued = clock
          /\ P[p].remaining < P[p].burst
          /\ ready.entry_finder[p] = ready.counter - 1

(***************************************************************************)
(* C18: no priority inversion at execution: when a process is about to     *)
(* execute tick t, no process live in the ready queue has an effective     *)
(* priority as of t, from its base_priority and last_enqueued, strictly    *)
(* lower than the effective priority as of t of the executing process.     *)
(***************************************************************************)
C18_NoInversionAtExecution ==
    (pc = "exec" /\ current # NoProcess) =>
        \A w \in LiveKeys(ready) :
            eff_priority(P[w], clock, aging_interval)
                >= eff_priority(P[current], clock, aging_interval)

(***************************************************************************)
(* C19: FIFO among equals: of two processes waiting in the ready queue     *)
(* since their admission with the same base_priority, arrival and          *)
(* last_enqueued, the one admitted second (the greater pid) is not         *)
(* dispatched while the one admitted first is still waiting.               *)
(***************************************************************************)
C19_FifoAmongEquals ==
    [][\A p, q \in DOMAIN P :
          (/\ p \in LiveKeys(ready)
           /\ q \in LiveKeys(ready)
           /\ P[p].base_priority = P[q].base_priority
           /\ P[p].arrival = P[q].arrival
           /\ P[p].last_enqueued = P[q].last_enqueued
           /\ P[p].start_time = None
           /\ P[q].start_time = None
           /\ PidRank(p) < PidRank(q))
          => current' # q]_vars

(***************************************************************************)
(* C20: work conservation.  The execution step of tick t records the idle  *)
(* marker exactly when no admitted process is incomplete, that is when no  *)
(* process is running and the ready queue has no live entry; when a        *)
(* process with arrival <= t is incomplete it records a pid.  Between the  *)
(* sections of run every admitted, incomplete process is either the        *)
(* running process or live in the ready queue, never both, and no other    *)
(* process is either.                                                      *)
(***************************************************************************)
\* The processes that have arrived by tick t and have not completed.
Pending(t) ==
    {p \in DOMAIN P : P[p].arrival <= t /\ P[p].completion_time = None}

C20_WorkConserving ==
    /\ [][pc = "exec" =>
            /\ Len(timeline') = Len(timeline) + 1
            /\ timeline'[Len(timeline')] = IDLE <=> Pending(clock) = {}
            /\ timeline'[Len(timeline')] = IDLE <=>
                  (current = NoProcess /\ LiveKeys(ready) = {})
            /\ Pending(clock) # {} =>
                  /\ timeline'[Len(timeline')] = current
                  /\ current \in Pending(clock)]_vars
    /\ [](Running =>
            \A p \in DOMAIN P :
               LET waiting == p \in LiveKeys(ready)
                   running == current = p
               IN  /\ ~(waiting /\ running)
                   /\ (waiting \/ running) <=>
                         (p \in Admitted(procs, idx) /\ P[p].completion_time = None))

\* An idle tick has been recorded between the completion of one process
\* and the arrival of another, which then ran while a third waited.
C20_Witness ==
    /\ pc = "loop"
    /\ \E i, j, k \in DOMAIN timeline :
          /\ i < j
          /\ j < k
          /\ timeline[i] # IDLE
          /\ timeline[j] = IDLE
          /\ timeline[k] # IDLE
    /\ current # NoProcess
    /\ LiveKeys(ready) # {}

====
